---- MODULE Spec2Model ----
(***************************************************************************)
(* Hdl21 primitives (src/hdl21/primitives.py) and the concatenation marker *)
(* (src/hdl21/concatable.py) as a state machine.                           *)
(*                                                                         *)
(* Python objects live in `heap` (a sequence; an object's identity is its  *)
(* index).  Python classes that can carry the `__concatable__` attribute   *)
(* are the numbers 1..MaxTypes, with `parent` the base class of each       *)
(* (0 is `object`).  `result` is what the last operation returned or       *)
(* raised.  Exceptions carry the Python names: TypeError, ValueError.      *)
(***************************************************************************)
EXTENDS Integers, Sequences, FiniteSets, TLC

VARIABLES
    heap,         \* the objects constructed so far, by identity
    result,       \* outcome of the last operation
    parent,       \* class hierarchy of the markable classes
    connectable,  \* the classes `is_connectable` accepts
    marked        \* the classes whose own __dict__ holds __concatable__ = True

vars == <<heap, result, parent, connectable, marked>>

\* ---------------------------------------------------------------- bounds
MaxTypes == 3     \* markable classes in the hierarchy
MaxPorts == 2     \* longest port_list handed to Primitive(...)
MaxPrims == 1     \* Primitives constructed on top of the catalog
MaxObjs  == 2     \* parameter values constructed
MaxAssign == 1    \* Primitives changed by attribute assignment

\* ------------------------------------------------------------ concatable
Types == 1..MaxTypes
Object == 0

\* Class hierarchies: every class derives from `object` or an earlier class.
Hierarchies == {f \in [Types -> 0..MaxTypes] : \A t \in Types : f[t] < t}

\* `is_connectable` is a capability of the class's structure, so a class
\* that derives from a connectable class is connectable too.
ConnectableSets(par) ==
    {S \in SUBSET Types : \A t \in Types : par[t] \in S => t \in S}

is_connectable(cls) == cls \in connectable

\* lookup in the class's own __dict__ only, ignoring base classes (mutant)
LookupOwn(cls, m) == cls \in m

\* Python attribute lookup of `__concatable__` along the class's MRO.

RECURSIVE Lookup(_, _)
Lookup(cls, m) ==
    IF cls = Object THEN FALSE
    ELSE IF cls \in m THEN TRUE
    ELSE Lookup(parent[cls], m)

\* is_concatable(obj) for an obj whose class is cls:
\* getattr(obj, "__concatable__", False)
is_concatable(cls) == Lookup(cls, marked)

NoResult == [op |-> "none", status |-> "ok"]

\* concatable(cls), marking before the capability check (mutant)
concatableMarkFirst(cls) ==
    /\ marked' = marked \cup {cls}
    /\ result' = [op |-> "concatable", cls |-> cls,
                  status |-> IF is_connectable(cls) THEN "ok" ELSE "TypeError",
                  ret |-> IF is_connectable(cls) THEN cls ELSE Object,
                  before |-> marked]
    /\ UNCHANGED <<heap, parent, connectable>>

\* concatable(cls)
concatable(cls) ==
    /\ IF ~is_connectable(cls)
       THEN /\ result' = [op |-> "concatable", cls |-> cls,
                          status |-> "TypeError", ret |-> Object,
                          before |-> marked]
            /\ UNCHANGED marked
       ELSE /\ marked' = marked \cup {cls}
            /\ result' = [op |-> "concatable", cls |-> cls,
                          status |-> "ok", ret |-> cls, before |-> marked]
    /\ UNCHANGED <<heap, parent, connectable>>

\* is_concatable(obj), obj an instance of cls
IsConcatableCall(cls) ==
    /\ result' = [op |-> "is_concatable", cls |-> cls, status |-> "ok",
                  ret |-> is_concatable(cls), before |-> marked]
    /\ UNCHANGED <<heap, parent, connectable, marked>>

InitConcat ==
    /\ heap = <<>>
    /\ result = NoResult
    /\ parent \in Hierarchies
    /\ connectable \in ConnectableSets(parent)
    /\ marked = {}

NextConcat ==
    \/ \E cls \in Types : concatable(cls)
    \/ \E cls \in Types : IsConcatableCall(cls)

SpecConcat == InitConcat /\ [][NextConcat]_vars

\* ------------------------------------------------------------ primitives
None == {}                     \* Optional[...] fields: {} is None, {v} is v
Some(v) == {v}

PrimitiveType == {"IDEAL", "PHYSICAL"}
MosType == {"NMOS", "PMOS"}
MosVth == {"STD", "LOW", "HIGH"}
BipolarType == {"NPN", "PNP"}
Visibility == {"INTERNAL", "PORT"}

\* the classes declared with @paramclass, and the class of the NoParams value
ParamClasses ==
    {"MosParams", "DiodeParams", "ResistorParams", "PhysicalResistorParams",
     "IdealCapacitorParams", "PhysicalCapacitorParams", "IdealInductorParams",
     "PhysicalInductorParams", "PhysicalShortParams", "DcVoltageSourceParams",
     "PulseVoltageSourceParams", "CurrentSourceParams", "BipolarParams",
     "NoParams"}
\* some classes that are not paramclasses
OtherClasses == {"int", "Primitive", "PrimitiveCall"}

isparamclass(cls) == cls \in ParamClasses

\* isinstance(obj, cls); a paramclass has no subclasses
isinstance(obj, cls) == obj.cls = cls

Signal(name, vis, width) == [name |-> name, vis |-> vis, width |-> width]
Port(name) == Signal(name, "PORT", 1)

PrimitiveObj(name, desc, port_list, paramtype, primtype) ==
    [cls |-> "Primitive", name |-> name, desc |-> desc, port_list |-> port_list,
     paramtype |-> paramtype, primtype |-> primtype]

TwoPorts == <<Port("p"), Port("n")>>
MosPorts == <<Port("d"), Port("g"), Port("s"), Port("b")>>

Mos == PrimitiveObj("Mos", "Mos Transistor", MosPorts, "MosParams", "PHYSICAL")
Diode == PrimitiveObj("Diode", "Diode", TwoPorts, "DiodeParams", "PHYSICAL")
IdealResistor ==
    PrimitiveObj("IdealResistor", "Ideal Resistor", TwoPorts,
                 "ResistorParams", "IDEAL")
PhysicalResistor ==
    PrimitiveObj("PhysicalResistor", "Physical Resistor", TwoPorts,
                 "ResistorParams", "PHYSICAL")
IdealCapacitor ==
    PrimitiveObj("IdealCapacitor", "Ideal Capacitor", TwoPorts,
                 "IdealCapacitorParams", "IDEAL")
PhysicalCapacitor ==
    PrimitiveObj("PhysicalCapacitor", "Physical Capacitor", TwoPorts,
                 "PhysicalCapacitorParams", "PHYSICAL")
IdealInductor ==
    PrimitiveObj("IdealInductor", "Ideal Inductor", TwoPorts,
                 "IdealInductorParams", "IDEAL")
PhysicalInductor ==
    PrimitiveObj("PhysicalInductor", "Physical Inductor", TwoPorts,
                 "PhysicalInductorParams", "PHYSICAL")
PhysicalShort ==
    PrimitiveObj("PhysicalShort", "Short-Circuit/ Net-Tie", TwoPorts,
                 "PhysicalShortParams", "PHYSICAL")
DcVoltageSource ==
    PrimitiveObj("DcVoltageSource", "Ideal DC Voltage Source", TwoPorts,
                 "DcVoltageSourceParams", "IDEAL")
PulseVoltageSource ==
    PrimitiveObj("PulseVoltageSource", "Pulse Voltage Source", TwoPorts,
                 "PulseVoltageSourceParams", "IDEAL")
CurrentSource ==
    PrimitiveObj("CurrentSource", "Ideal DC Current Source", TwoPorts,
                 "CurrentSourceParams", "IDEAL")
Bipolar ==
    PrimitiveObj("Bipolar", "Bipolar Transistor",
                 <<Port("c"), Port("b"), Port("e")>>, "BipolarParams", "PHYSICAL")

\* the NoParams value, default argument of Primitive.__call__
NoParams == [cls |-> "NoParams"]

\* The objects that exist once the module is imported, in definition order.
Catalog ==
    <<Mos, Diode, IdealResistor, PhysicalResistor, IdealCapacitor,
      PhysicalCapacitor, IdealInductor, PhysicalInductor, PhysicalShort,
      DcVoltageSource, PulseVoltageSource, CurrentSource, Bipolar, NoParams>>

IdOf(obj) == CHOOSE i \in DOMAIN Catalog : Catalog[i] = obj
MosId == IdOf(Mos)
BipolarId == IdOf(Bipolar)
NoParamsId == IdOf(NoParams)

Ids == DOMAIN heap
PrimIds == {i \in Ids : heap[i].cls = "Primitive"}
UserPrims == {i \in PrimIds : i > Len(Catalog)}
UserObjs == {i \in Ids : i > Len(Catalog) /\ heap[i].cls # "Primitive"}

\* ---- Primitive
\* the loop over port_list without the visibility check (mutant)
RECURSIVE CheckPortsNameOnly(_)
CheckPortsNameOnly(pl) ==
    IF pl = <<>> THEN "ok"
    ELSE IF Head(pl).name = "" THEN "ValueError"
    ELSE CheckPortsNameOnly(Tail(pl))

\* for p in self.port_list: ... raise ValueError
RECURSIVE CheckPorts(_)
CheckPorts(pl) ==
    IF pl = <<>> THEN "ok"
    ELSE IF Head(pl).name = "" THEN "ValueError"
    ELSE IF Head(pl).vis # "PORT" THEN "ValueError"
    ELSE CheckPorts(Tail(pl))

\* Primitive.__post_init_post_parse__, ports examined first (mutant)
PrimitivePostInitPortsFirst(self) ==
    IF CheckPorts(self.port_list) # "ok" THEN CheckPorts(self.port_list)
    ELSE IF ~isparamclass(self.paramtype) THEN "TypeError"
    ELSE "ok"

\* Primitive.__post_init_post_parse__: "ok", or the exception raised
PrimitivePostInit(self) ==
    IF ~isparamclass(self.paramtype) THEN "TypeError"
    ELSE CheckPorts(self.port_list)

\* Primitive(name, desc, port_list, paramtype, primtype)
NewPrimitive(name, desc, port_list, paramtype, primtype) ==
    LET self == PrimitiveObj(name, desc, port_list, paramtype, primtype)
        status == PrimitivePostInit(self)
    IN  /\ Cardinality(UserPrims) < MaxPrims
        /\ IF status = "ok"
           THEN heap' = Append(heap, self)
           ELSE UNCHANGED heap
        /\ result' = [op |-> "Primitive", args |-> self, status |-> status,
                      ret |-> IF status = "ok" THEN Len(heap) + 1 ELSE 0]
        /\ UNCHANGED <<parent, connectable, marked>>

EmptyDict == [n \in {} |-> Port("")]

\* a dict comprehension that keeps the first port of each name (mutant)
RECURSIVE PortsDictFirst(_)
PortsDictFirst(pl) ==
    IF pl = <<>> THEN EmptyDict
    ELSE LET p == Head(pl)
             d == PortsDictFirst(Tail(pl))
         IN  [n \in DOMAIN d \cup {p.name} |-> IF n = p.name THEN p ELSE d[n]]

\* {p.name: p for p in port_list}: entries are stored in list order
RECURSIVE PortsDict(_)
PortsDict(pl) ==
    IF pl = <<>> THEN EmptyDict
    ELSE LET p == pl[Len(pl)]
             d == PortsDict(SubSeq(pl, 1, Len(pl) - 1))
         IN  [n \in DOMAIN d \cup {p.name} |-> IF n = p.name THEN p ELSE d[n]]

\* Primitive.ports
Primitive_ports(self) == PortsDict(self.port_list)

\* Primitive.Params
Primitive_Params(self) == self.paramtype

\* reading prim.ports
PrimitivePorts(id) ==
    /\ id \in PrimIds
    /\ result' = [op |-> "Primitive.ports", self |-> id, status |-> "ok",
                  ret |-> Primitive_ports(heap[id])]
    /\ UNCHANGED <<heap, parent, connectable, marked>>

\* reading prim.Params
PrimitiveParams(id) ==
    /\ id \in PrimIds
    /\ result' = [op |-> "Primitive.Params", self |-> id, status |-> "ok",
                  ret |-> Primitive_Params(heap[id])]
    /\ UNCHANGED <<heap, parent, connectable, marked>>

\* inputs of Primitive(...)
Signals ==
    {Port("a"), Signal("a", "PORT", 2), Port(""), Signal("b", "INTERNAL", 1)}
PortLists == UNION {[1..n -> Signals] : n \in 0..MaxPorts}
ParamTypeInputs == {"NoParams", "int"}

InitPrim ==
    /\ heap = Catalog
    /\ result = NoResult
    /\ parent = [t \in Types |-> Object]
    /\ connectable = {}
    /\ marked = {}

NextPrim ==
    \/ \E pl \in PortLists, pt \in ParamTypeInputs :
          NewPrimitive("User", "", pl, pt, "IDEAL")
    \/ \E id \in Ids : PrimitivePorts(id)
    \/ \E id \in Ids : PrimitiveParams(id)

SpecPrim == InitPrim /\ [][NextPrim]_vars

\* ---- parameter classes
MosParamsObj(w, l, npar, tp, vth, model) ==
    [cls |-> "MosParams", w |-> w, l |-> l, npar |-> npar, tp |-> tp,
     vth |-> vth, model |-> model]

BipolarParamsObj(w, l, tp) ==
    [cls |-> "BipolarParams", w |-> w, l |-> l, tp |-> tp]

ResistorParamsObj(r) == [cls |-> "ResistorParams", r |-> r]

\* `x <= 0` on an Optional[int]: None <= 0 raises TypeError in Python 3
LeqZero(x) ==
    IF x = None THEN "TypeError"
    ELSE IF (CHOOSE v \in x : TRUE) <= 0 THEN "True" ELSE "False"

\* MosParams.__post_init_post_parse__: "ok", or the exception raised
MosParamsPostInit(self) ==
    IF LeqZero(self.w) = "TypeError" THEN "TypeError"
    ELSE IF LeqZero(self.w) = "True" THEN "ValueError"
    ELSE IF LeqZero(self.l) = "TypeError" THEN "TypeError"
    ELSE IF LeqZero(self.l) = "True" THEN "ValueError"
    ELSE IF self.npar <= 0 THEN "ValueError"
    ELSE "ok"

\* BipolarParams.__post_init_post_parse__
BipolarParamsPostInit(self) ==
    IF LeqZero(self.w) = "TypeError" THEN "TypeError"
    ELSE IF LeqZero(self.w) = "True" THEN "ValueError"
    ELSE IF LeqZero(self.l) = "TypeError" THEN "TypeError"
    ELSE IF LeqZero(self.l) = "True" THEN "ValueError"
    ELSE "ok"

\* the value checks a parameter class runs when an instance is constructed
PostInit(self) ==
    IF self.cls = "MosParams" THEN MosParamsPostInit(self)
    ELSE IF self.cls = "BipolarParams" THEN BipolarParamsPostInit(self)
    ELSE "ok"

Idle == result = NoResult
Room(n) == Cardinality(UserObjs) + n <= MaxObjs

\* cls(**fields): a parameter value is constructed, or its checks raise
NewParams(op, self) ==
    LET status == PostInit(self)
    IN  /\ Idle
        /\ Room(1)
        /\ IF status = "ok"
           THEN heap' = Append(heap, self)
           ELSE UNCHANGED heap
        /\ result' = [op |-> op, args |-> self, status |-> status,
                      ret |-> IF status = "ok" THEN Len(heap) + 1 ELSE 0]
        /\ UNCHANGED <<parent, connectable, marked>>

NewMosParams(w, l, npar, tp, vth, model) ==
    NewParams("MosParams", MosParamsObj(w, l, npar, tp, vth, model))

NewBipolarParams(w, l, tp) ==
    NewParams("BipolarParams", BipolarParamsObj(w, l, tp))

NewResistorParams(r) ==
    NewParams("ResistorParams", ResistorParamsObj(r))

\* ---- PrimitiveCall
PrimitiveCallObj(prim, params) ==
    [cls |-> "PrimitiveCall", prim |-> prim, params |-> params]

\* PrimitiveCall.__post_init_post_parse__ without the isinstance check (mutant)
PrimitiveCallPostInitNoCheck(h, self) == "ok"

\* PrimitiveCall.__post_init_post_parse__ over the heap h
PrimitiveCallPostInit(h, self) ==
    IF ~isinstance(h[self.params], h[self.prim].paramtype) THEN "TypeError"
    ELSE "ok"

\* Primitive.__call__(self, params), called as `op` with argument `arg`,
\* over the heap h: the call object returned, or the exception raised
CallResult(op, arg, h, prim, params) ==
    LET self == PrimitiveCallObj(prim, params)
        status == PrimitiveCallPostInit(h, self)
    IN  [op |-> op, arg |-> arg, prim |-> prim, params |-> params,
         status |-> status,
         ret |-> IF status = "ok" THEN self ELSE PrimitiveCallObj(0, 0)]

\* prim(params)
Call(prim, params) ==
    /\ Idle
    /\ prim \in PrimIds
    /\ params \in Ids
    /\ result' = CallResult("__call__", params, heap, prim, params)
    /\ UNCHANGED <<heap, parent, connectable, marked>>

\* prim(): params takes its default, NoParams
CallDefault(prim) ==
    /\ Idle
    /\ prim \in PrimIds
    /\ result' = CallResult("__call__()", NoParamsId, heap, prim, NoParamsId)
    /\ UNCHANGED <<heap, parent, connectable, marked>>

\* PrimitiveCall.ports returning the ports the call's parameters select (mutant)
PrimitiveCall_portsByParams(h, self) ==
    IF h[self.params].cls = "MosParams" /\ h[self.params].tp = "PMOS"
    THEN EmptyDict
    ELSE Primitive_ports(h[self.prim])

\* PrimitiveCall.ports
PrimitiveCall_ports(h, self) == Primitive_ports(h[self.prim])

HoldsCall == result.op \in {"__call__", "__call__()", "Nmos", "Pmos", "Npn", "Pnp"}
                /\ result.status = "ok"

\* reading call.ports on the call just returned
PrimitiveCallPorts ==
    /\ HoldsCall
    /\ result' = [op |-> "PrimitiveCall.ports", self |-> result.ret,
                  status |-> "ok", ret |-> PrimitiveCall_ports(heap, result.ret)]
    /\ UNCHANGED <<heap, parent, connectable, marked>>

\* dataclasses.replace that hands back its argument with tp overwritten (mutant)
replaceInPlace(h, id, tp) ==
    [heap |-> [h EXCEPT ![id].tp = tp], status |-> "ok", ret |-> id]

\* dataclasses.replace(params, tp=tp): type(params)(**fields, tp=tp).
\* Only MosParams and BipolarParams have a field tp; a MosType is no valid
\* BipolarType and the reverse, which the field coercion rejects.
replace(h, id, tp) ==
    LET old == h[id]
        new == [old EXCEPT !.tp = tp]
    IN  IF old.cls \notin {"MosParams", "BipolarParams"}
        THEN [heap |-> h, status |-> "TypeError", ret |-> 0]
        ELSE IF tp \notin (IF old.cls = "MosParams" THEN MosType ELSE BipolarType)
        THEN [heap |-> h, status |-> "ValidationError", ret |-> 0]
        ELSE IF PostInit(new) # "ok"
        THEN [heap |-> h, status |-> PostInit(new), ret |-> 0]
        ELSE [heap |-> Append(h, new), status |-> "ok", ret |-> Len(h) + 1]

\* Nmos / Pmos / Npn / Pnp: prim(replace(params, tp=tp))
Variant(op, prim, tp, params) ==
    LET r == replace(heap, params, tp)
    IN  /\ Idle
        /\ params \in Ids
        /\ Room(1)
        /\ heap' = r.heap
        /\ result' = IF r.status = "ok"
                     THEN CallResult(op, params, r.heap, prim, r.ret)
                     ELSE [op |-> op, arg |-> params, prim |-> prim, params |-> 0,
                           status |-> r.status, ret |-> PrimitiveCallObj(0, 0)]
        /\ UNCHANGED <<parent, connectable, marked>>

Nmos(params) == Variant("Nmos", MosId, "NMOS", params)
Pmos(params) == Variant("Pmos", MosId, "PMOS", params)
Npn(params) == Variant("Npn", BipolarId, "NPN", params)
Pnp(params) == Variant("Pnp", BipolarId, "PNP", params)

\* the caller drops the value it was handed
Return ==
    /\ ~Idle
    /\ result' = NoResult
    /\ UNCHANGED <<heap, parent, connectable, marked>>

\* inputs of the parameter classes
Dims == {None, Some(-1), Some(0), Some(1)}
Npars == {-1, 0, 1}
\* values handed to a primitive or a variant constructor: every parameter
\* value, NoParams, and one object that is no parameter value at all
Args == {i \in Ids : heap[i].cls # "Primitive"} \cup {MosId}

\* a primitive without parameters, as a user of the library defines one
Tie == PrimitiveObj("Tie", "", <<Port("a")>>, "NoParams", "IDEAL")

InitCall ==
    /\ heap \in {Catalog, Append(Catalog, Tie)}
    /\ result = NoResult
    /\ parent = [t \in Types |-> Object]
    /\ connectable = {}
    /\ marked = {}

NextCall ==
    \/ \E w \in Dims, l \in Dims, npar \in Npars :
          NewMosParams(w, l, npar, "NMOS", "STD", None)
    \/ \E tp \in MosType, vth \in MosVth :
          NewMosParams(Some(2), Some(1), 2, tp, vth, Some("m"))
    \/ \E w \in Dims, l \in Dims : NewBipolarParams(w, l, "NPN")
    \/ NewBipolarParams(Some(2), Some(1), "PNP")
    \/ NewResistorParams(1)
    \/ \E prim \in Ids, params \in Args : Call(prim, params)
    \/ \E prim \in Ids : CallDefault(prim)
    \/ \E params \in Args : Nmos(params)
    \/ \E params \in Args : Pmos(params)
    \/ \E params \in Args : Npn(params)
    \/ \E params \in Args : Pnp(params)
    \/ PrimitiveCallPorts
    \/ Return

SpecCall == InitCall /\ [][NextCall]_vars

\* ---- attribute assignment
\* Primitive and PrimitiveCall are declared with a bare @dataclass: neither
\* is frozen, and an assignment is not validated again.
Changed == {i \in DOMAIN Catalog : heap[i] # Catalog[i]}

\* prim.field = value
SetPrimitiveAttr(id, field, value) ==
    /\ Idle
    /\ id \in PrimIds
    /\ Cardinality(Changed \cup {id}) <= MaxAssign
    /\ heap' = [heap EXCEPT ![id] = [@ EXCEPT ![field] = value]]
    /\ result' = [op |-> "setattr", self |-> id, field |-> field,
                  status |-> "ok"]
    /\ UNCHANGED <<parent, connectable, marked>>

\* call.field = value, on the call just returned
SetCallAttr(field, value) ==
    /\ HoldsCall
    /\ result' = [result EXCEPT !.ret = [@ EXCEPT ![field] = value]]
    /\ UNCHANGED <<heap, parent, connectable, marked>>

PrimitiveAttrs ==
    {<<"name", "X">>, <<"paramtype", "ResistorParams">>,
     <<"port_list", <<Signal("", "INTERNAL", 1)>> >>}

InitAssign ==
    /\ heap = Catalog
    /\ result = NoResult
    /\ parent = [t \in Types |-> Object]
    /\ connectable = {}
    /\ marked = {}

NextAssign ==
    \/ \E tp \in MosType : NewMosParams(Some(1), Some(1), 1, tp, "STD", None)
    \/ NewResistorParams(1)
    \/ \E prim \in Ids, params \in Args : Call(prim, params)
    \/ PrimitiveCallPorts
    \/ Return
    \/ \E id \in Ids, a \in PrimitiveAttrs : SetPrimitiveAttr(id, a[1], a[2])
    \/ \E params \in Args : SetCallAttr("params", params)
    \/ SetCallAttr("prim", BipolarId)

SpecAssign == InitAssign /\ [][NextAssign]_vars

\* ================================================================ claims

\* ---- SpecConcat
\* the class itself and the classes it derives from
RECURSIVE Mro(_)
Mro(cls) == IF cls = Object THEN {} ELSE {cls} \cup Mro(parent[cls])

\* what concatable(cls) has returned or raised, and the marks it left
C6_Post ==
    result.op = "concatable" =>
        /\ result.cls \notin connectable =>
              /\ result.status = "TypeError"
              /\ marked = result.before
              /\ ~is_concatable(result.cls)
        /\ result.cls \in connectable =>
              /\ result.status = "ok"
              /\ result.ret = result.cls
              /\ is_concatable(result.cls)
              /\ marked = result.before \cup {result.cls}
        /\ result.cls \in result.before => marked = result.before

\* a step never removes a mark
C6_Grows ==
    /\ marked \subseteq marked'
    /\ \A t \in Types : is_concatable(t) => is_concatable(t)'

\* C6: concatable(T) on a class that is not connectable raises TypeError
\* and leaves the marks as they were, so is_concatable of an instance of T
\* is still False; on a connectable class it returns T itself and
\* is_concatable of its instances is True from then on.  The marks only
\* grow, and marking a marked class again changes nothing.
C6_MarkConcatable == []C6_Post /\ [][C6_Grows]_vars

\* C6 witness: after some class was marked, marking a class that is not
\* connectable has failed
C6_Witness ==
    /\ result.op = "concatable"
    /\ result.status = "TypeError"
    /\ marked # {}

\* C7 as stated: is_concatable(value) is True exactly when value's own
\* class was passed successfully to concatable, so it is False for an
\* instance of an unmarked subclass of a marked class.
C7_OwnTypeOnly ==
    result.op = "is_concatable" => (result.ret <=> result.cls \in marked)

\* what is_concatable has returned
C7_Post ==
    result.op = "is_concatable" =>
        /\ result.ret <=> (Mro(result.cls) \cap marked # {})
        /\ result.cls \notin connectable => ~result.ret
        /\ marked = result.before

\* a step that is is_concatable leaves the marks alone
C7_Pure == result'.op = "is_concatable" => marked' = marked

\* C7 amended: is_concatable(value) is True exactly when value's class or
\* a class it derives from was passed successfully to concatable; it is
\* False otherwise, also for a class concatable rejected.  It changes no
\* state.
C7_Inherited == []C7_Post /\ [][C7_Pure]_vars

\* C7 witness: is_concatable answered True for an instance of an unmarked
\* subclass of a marked class
C7_Witness ==
    /\ result.op = "is_concatable"
    /\ result.ret
    /\ result.cls \notin marked

\* ---- SpecPrim
BadPort(p) == p.name = "" \/ p.vis # "PORT"
HasBadPort(pl) == \E i \in DOMAIN pl : BadPort(pl[i])

\* C2 as stated: a Primitive construction with a port that is unnamed or
\* not of PORT visibility fails with ValueError (PortDefinitionError).
C2_AlwaysValueError ==
    (result.op = "Primitive" /\ HasBadPort(result.args.port_list)) =>
        result.status = "ValueError"

\* the outcome of a construction with a bad port
C2_Post ==
    /\ (result.op = "Primitive" /\ HasBadPort(result.args.port_list)) =>
          /\ result.ret = 0
          /\ result.status =
                IF isparamclass(result.args.paramtype)
                THEN "ValueError" ELSE "TypeError"
    /\ \A i \in PrimIds : ~HasBadPort(heap[i].port_list)

\* a failed construction adds no object
C2_NoObject ==
    (result'.op = "Primitive" /\ HasBadPort(result'.args.port_list)) =>
        heap' = heap

\* C2 amended: a Primitive construction with a port that is unnamed or not
\* of PORT visibility fails and produces no descriptor; the failure is
\* ValueError when paramtype is a paramclass and TypeError when it is not.
\* Every port of every Primitive that exists, catalog included, is named
\* and has PORT visibility.
C2_BadPortFails == []C2_Post /\ [][C2_NoObject]_vars

\* C2 witness: a construction with a paramclass and a port of INTERNAL
\* visibility has failed with ValueError
C2_Witness ==
    /\ result.op = "Primitive"
    /\ isparamclass(result.args.paramtype)
    /\ \E i \in DOMAIN result.args.port_list :
          result.args.port_list[i].vis # "PORT"
    /\ result.status = "ValueError"

\* C3: a Primitive construction whose paramtype is no paramclass fails with
\* TypeError (ConfigurationError), which is not the ValueError of a bad
\* port, whatever the port list: the paramtype is checked before any port.
C3_BadParamtype ==
    (result.op = "Primitive" /\ result.args.paramtype \notin ParamClasses) =>
        /\ result.status = "TypeError"
        /\ result.status # "ValueError"
        /\ result.ret = 0

\* C3 witness: a construction with a paramtype that is no paramclass and
\* with a bad port has failed
C3_Witness ==
    /\ result.op = "Primitive"
    /\ result.args.paramtype \notin ParamClasses
    /\ HasBadPort(result.args.port_list)
    /\ result.status = "TypeError"

\* the last position in pl of a port named n
LastNamed(pl, n) ==
    CHOOSE i \in DOMAIN pl :
        /\ pl[i].name = n
        /\ \A j \in DOMAIN pl : pl[j].name = n => j <= i

\* the mapping ports has returned, and what construction accepts
C10_Post ==
    /\ result.op = "Primitive.ports" =>
          LET pl == heap[result.self].port_list
          IN  /\ DOMAIN result.ret = {pl[i].name : i \in DOMAIN pl}
              /\ \A n \in DOMAIN result.ret : result.ret[n] = pl[LastNamed(pl, n)]
              /\ Cardinality(DOMAIN result.ret) <= Len(pl)
    /\ result.op = "Primitive" =>
          (result.status = "ok" <=>
              /\ result.args.paramtype \in ParamClasses
              /\ ~HasBadPort(result.args.port_list))

\* reading ports changes no object; two reads in a row agree
C10_Pure ==
    result'.op = "Primitive.ports" =>
        /\ heap' = heap
        /\ (result.op = "Primitive.ports" /\ result.self = result'.self) =>
               result'.ret = result.ret

\* C10: Primitive.ports is a mapping whose keys are exactly the names in
\* port_list and which maps each name to the last port of that name in list
\* order; construction accepts duplicate names, so the mapping can have
\* fewer entries than port_list.  Reading ports leaves port_list alone and
\* reading it again gives an equal mapping.
C10_Ports == []C10_Post /\ [][C10_Pure]_vars

\* C10 witness: ports was read on a Primitive with two ports of one name,
\* and the mapping has fewer entries than port_list
C10_Witness ==
    /\ result.op = "Primitive.ports"
    /\ Cardinality(DOMAIN result.ret) < Len(heap[result.self].port_list)
    /\ \E i, j \in DOMAIN heap[result.self].port_list :
          /\ i < j
          /\ heap[result.self].port_list[i] # heap[result.self].port_list[j]

\* ---- SpecCall
NoCall == PrimitiveCallObj(0, 0)

\* C1: prim(params), and prim() with params defaulting to NoParams,
\* returns a PrimitiveCall if and only if params is an instance of
\* prim.paramtype; otherwise it raises TypeError (ParameterTypeError) and
\* no call is produced, as when a ResistorParams is handed to Mos.
C1_CallTypeChecked ==
    result.op \in {"__call__", "__call__()"} =>
        LET P == heap[result.prim]
            v == heap[result.params]
        IN  /\ result.status = "ok" <=> v.cls = P.paramtype
            /\ result.status = "ok" =>
                   result.ret = PrimitiveCallObj(result.prim, result.params)
            /\ result.status # "ok" =>
                   (result.status = "TypeError" /\ result.ret = NoCall)
            /\ result.op = "__call__()" => v = NoParams

\* C1 witness: Mos was called with a ResistorParams and raised TypeError
C1_Witness ==
    /\ result.op = "__call__"
    /\ result.prim = MosId
    /\ heap[result.params].cls = "ResistorParams"
    /\ result.status = "TypeError"

Positive(x) == x # None /\ \A v \in x : v > 0

InDomain(self) ==
    /\ Positive(self.w)
    /\ Positive(self.l)
    /\ self.cls = "MosParams" => self.npar > 0

\* C4 as stated: MosParams(...) succeeds if and only if w > 0, l > 0 and
\* npar > 0, and BipolarParams(...) if and only if w > 0 and l > 0; every
\* other construction, w or l left at None included, raises ValueError
\* (ParameterValueError) and yields no value.
C4_DomainOrValueError ==
    result.op \in {"MosParams", "BipolarParams"} =>
        /\ result.status = "ok" <=> InDomain(result.args)
        /\ ~InDomain(result.args) =>
               (result.status = "ValueError" /\ result.ret = 0)

Family(op) == IF op \in {"Nmos", "Pmos"} THEN "MosParams" ELSE "BipolarParams"
Forced(op) ==
    IF op = "Nmos" THEN "NMOS" ELSE IF op = "Pmos" THEN "PMOS"
    ELSE IF op = "Npn" THEN "NPN" ELSE "PNP"

\* the call a variant constructor has returned
C5_Post ==
    (/\ result.op \in {"Nmos", "Pmos", "Npn", "Pnp"}
     /\ heap[result.arg].cls = Family(result.op)) =>
        /\ result.status = "ok"
        /\ result.ret.prim = (IF Family(result.op) = "MosParams"
                              THEN MosId ELSE BipolarId)
        /\ result.ret.params \in Ids \ {result.arg}
        /\ heap[result.ret.params] =
              [heap[result.arg] EXCEPT !.tp = Forced(result.op)]

\* no step changes an object that exists
C5_InputKept == \A i \in DOMAIN heap : heap'[i] = heap[i]

\* C5: for a MosParams p, Nmos(p) and Pmos(p) return a call of Mos whose
\* params equal p in every field but tp, which is NMOS resp. PMOS
\* whatever p.tp was; likewise Npn and Pnp over Bipolar.  p is left as it
\* was, and the call carries a new value, not p.
C5_VariantOverride == []C5_Post /\ [][C5_InputKept]_vars

\* C5 witness: Nmos of a PMOS-typed MosParams returned a call whose params
\* are NMOS-typed while the argument is still PMOS-typed
C5_Witness ==
    /\ result.op = "Nmos"
    /\ result.status = "ok"
    /\ heap[result.arg].tp = "PMOS"
    /\ heap[result.ret.params].tp = "NMOS"

\* C9: for any PrimitiveCall c, c.ports equals c.prim.ports, whatever
\* c.params is; for a call of Mos the keys are exactly d, g, s, b.
C9_Delegation ==
    result.op = "PrimitiveCall.ports" =>
        /\ result.ret = Primitive_ports(heap[result.self.prim])
        /\ result.self.prim = MosId => DOMAIN result.ret = {"d", "g", "s", "b"}

\* C9 witness: ports was read on a call of Mos with PMOS-typed params
C9_Witness ==
    /\ result.op = "PrimitiveCall.ports"
    /\ result.self.prim = MosId
    /\ heap[result.self.params].tp = "PMOS"

\* ---- SpecAssign
\* C8 as stated: after any sequence of operations, attribute assignment
\* included, every Primitive has the fields it was constructed with and
\* every PrimitiveCall the prim and params it was constructed with, so a
\* call's params is an instance of its prim's paramtype and every port is
\* named and has PORT visibility.
C8_Immutable ==
    /\ \A i \in DOMAIN Catalog : heap[i] = Catalog[i]
    /\ \A i \in PrimIds : ~HasBadPort(heap[i].port_list)
    /\ HoldsCall =>
          /\ result.ret = PrimitiveCallObj(result.prim, result.params)
          /\ heap[result.ret.params].cls = heap[result.ret.prim].paramtype

====
